---- MODULE Spec2Model ----
(***************************************************************************)
(* VizGenie workflow: the LangGraph stage graph of agents/workflow.py, the *)
(* node handlers of agents/vizgenie_agents.py, the state channels of      *)
(* state/graph_state.py and the validation tool of tools/vizgenie_tools.py *)
(***************************************************************************)
EXTENDS Integers, Sequences, FiniteSets, TLC

VARIABLES
    pc,                 \* the node the graph executes next ("END" when the run returned,
                        \* "RAISED" when a node's exception ended it)
    user_queries,       \* VizGenieState.user_queries
    current_stage,      \* VizGenieState.current_stage
    metrics_contexts,   \* VizGenieState.metrics_contexts (operator.add channel)
    generated_queries,  \* VizGenieState.generated_queries (operator.add channel)
    dashboard_spec,     \* VizGenieState.dashboard_spec
    deployment_result,  \* VizGenieState.deployment_result
    errors,             \* VizGenieState.errors (operator.add channel)
    retry_count,        \* VizGenieState.retry_count
    max_retries,        \* VizGenieState.max_retries
    execution_log,      \* VizGenieState.execution_log (operator.add channel)
    start_time,         \* VizGenieState.start_time
    end_time,           \* VizGenieState.end_time
    last_node,          \* the node executed last ("START" before the first)
    last_update,        \* the partial update that node returned
    steps,              \* number of node executions so far in this run
    retries_taken,      \* number of times the edge validate_query -> generate_query was taken
    generation_attempts,\* per execution of generate_query_node, what the generation tools returned
    trace,              \* the nodes executed in this run, each with the stage it returned
    runs,               \* number of runs started on the workflow's thread_id
    inherited,          \* what the checkpoint of the thread held in the append channels when this run started
    dashboard_case,     \* input and result of one application of the panel post-processing
    groq                \* a GroqHandler and the call of groqrequest in progress on it

vars == <<pc, user_queries, current_stage, metrics_contexts, generated_queries,
          dashboard_spec, deployment_result, errors, retry_count, max_retries,
          execution_log, start_time, end_time, last_node, last_update, steps,
          retries_taken, generation_attempts, trace, runs, inherited, dashboard_case, groq>>

-----------------------------------------------------------------------------
(* Bounds of the model *)

\* longest user_queries list the caller passes
MaxQueries == 2
\* generate_query_node is not explored once generated_queries is longer than
\* this, or once it has been executed more often than this in the run
MaxGenerated == 4

-----------------------------------------------------------------------------
(* ProcessingStage and QueryType *)

INITIALIZED == "initialized"
INTENT_EXTRACTED == "intent_extracted"
METRICS_EXTRACTED == "metrics_extracted"
SIMILARITY_SEARCHED == "similarity_searched"
QUERY_GENERATED == "query_generated"
QUERY_VALIDATED == "query_validated"
DASHBOARD_GENERATED == "dashboard_generated"
DEPLOYED == "deployed"
FAILED == "failed"

ProcessingStage ==
    {INITIALIZED, INTENT_EXTRACTED, METRICS_EXTRACTED, SIMILARITY_SEARCHED,
     QUERY_GENERATED, QUERY_VALIDATED, DASHBOARD_GENERATED, DEPLOYED, FAILED}

PROMETHEUS == "prometheus"
POSTGRES == "postgres"

\* an Optional field holds None or Some(v)
None == <<>>

Some(v) == <<v>>

-----------------------------------------------------------------------------
(* Sequence helpers *)

Contains(s, x) == \E i \in 1..Len(s) : s[i] = x

Count(s, x) == Cardinality({i \in 1..Len(s) : s[i] = x})

Prefix(s, n) == [i \in 1..(IF n < Len(s) THEN n ELSE Len(s)) |-> s[i]]

Min(S) == CHOOSE x \in S : \A y \in S : x <= y

\* the first of the positions in idx, 0 when there is none
FirstIndex(idx) == IF idx = {} THEN 0 ELSE Min(idx)

SeqsUpTo(S, n) == UNION {[1..k -> S] : k \in 0..n}

-----------------------------------------------------------------------------
(* The state channels and the merge of a node's partial update *)

\* the state a node receives
State ==
    [user_queries |-> user_queries, current_stage |-> current_stage,
     metrics_contexts |-> metrics_contexts, generated_queries |-> generated_queries,
     dashboard_spec |-> dashboard_spec, deployment_result |-> deployment_result,
     errors |-> errors, retry_count |-> retry_count, max_retries |-> max_retries,
     execution_log |-> execution_log, start_time |-> start_time, end_time |-> end_time]

Has(u, k) == k \in DOMAIN u

\* a channel without reducer: the update's value replaces the old one
LastValue(u, k, old) == IF Has(u, k) THEN u[k] ELSE old

\* an append channel declared without its reducer: the update's list replaces
\* the old one
OperatorAdd_Replacing(u, k, old) == IF Has(u, k) THEN u[k] ELSE old

\* Annotated[List[...], operator.add]: the update's list is added to the old one
OperatorAdd(u, k, old) == IF Has(u, k) THEN old \o u[k] ELSE old

\* the state after update u is merged; uq and gq are user_queries and
\* generated_queries as the node left them (nodes change their entries in place)
MergeUpdate(u, uq, gq) ==
    /\ user_queries' = LastValue(u, "user_queries", uq)
    /\ current_stage' = LastValue(u, "current_stage", current_stage)
    /\ metrics_contexts' = OperatorAdd(u, "metrics_contexts", metrics_contexts)
    /\ generated_queries' = OperatorAdd(u, "generated_queries", gq)
    /\ dashboard_spec' = LastValue(u, "dashboard_spec", dashboard_spec)
    /\ deployment_result' = LastValue(u, "deployment_result", deployment_result)
    /\ errors' = OperatorAdd(u, "errors", errors)
    /\ retry_count' = LastValue(u, "retry_count", retry_count)
    /\ max_retries' = LastValue(u, "max_retries", max_retries)
    /\ execution_log' = OperatorAdd(u, "execution_log", execution_log)
    /\ start_time' = LastValue(u, "start_time", start_time)
    /\ end_time' = LastValue(u, "end_time", end_time)

\* bookkeeping of one node execution
Executed(node, u) ==
    /\ last_node' = node
    /\ last_update' = u
    /\ steps' = steps + 1
    /\ trace' = Append(trace, [node |-> node, stage |-> LastValue(u, "current_stage", "")])
    /\ UNCHANGED <<runs, inherited, dashboard_case, groq>>

\* datetime.now(): the model's clock is the number of node executions
Now == steps + 1

\* an entry of errors: its stage and its message (the 'query' and 'retry_count'
\* keys some entries carry are not read by any node or router)
Error(stage, text) == [stage |-> stage, error |-> text]

\* log_execution: the entry records the stage the node was entered with
log_execution(S, agent) == <<[agent |-> agent, stage |-> S.current_stage]>>

-----------------------------------------------------------------------------
(* The caller's input *)

\* state['available_datasources']: the third one is a Prometheus datasource
\* that is not named 'prometheus'
AvailableDatasources ==
    <<[name |-> "prometheus", uid |-> "prom-uid", type |-> "prometheus"],
      [name |-> "pgmain", uid |-> "pg-uid", type |-> "postgres"],
      [name |-> "metrics-prod", uid |-> "prom2-uid", type |-> "prometheus"]>>

\* the datasource names a query may carry; "nowhere" is in no catalog entry
DatasourceNames == {"prometheus", "pgmain", "metrics-prod", "nowhere"}

\* a QueryContext as the caller passes it, not yet resolved
CallerQuery(i, name) ==
    [query_text |-> i, datasource_name |-> name, datasource_uid |-> "",
     datasource_type |-> "", query_type |-> ""]

\* retry_count values the caller may put into the initial state
CallerRetryCounts == {0, 5}

\* the initial state a caller passes to run / arun / stream
CallerState(names, rc) ==
    [user_queries |-> [i \in 1..Len(names) |-> CallerQuery(i, names[i])],
     current_stage |-> INITIALIZED,
     metrics_contexts |-> <<>>,
     generated_queries |-> <<>>,
     dashboard_spec |-> None,
     deployment_result |-> None,
     errors |-> <<>>,
     retry_count |-> rc,
     max_retries |-> 3,
     execution_log |-> <<>>,
     start_time |-> None,
     end_time |-> None]

\* the record r without its key k
WithoutKey(r, k) == [x \in DOMAIN r \ {k} |-> r[x]]

\* a channel without reducer that was never written is no key of the state
KeyMissing == "<missing>"

\* VizGenieState is a TypedDict, nothing makes the caller pass every key: the
\* initial states with and without 'current_stage'
CallerInputsUpTo(n) ==
    LET full == {CallerState(names, rc) :
                    names \in SeqsUpTo(DatasourceNames, n),
                    rc \in CallerRetryCounts}
    IN  full \cup {WithoutKey(inp, "current_stage") : inp \in full}

CallerInputs == CallerInputsUpTo(MaxQueries)

\* the append channels of a thread_id that has no checkpoint yet
FreshThread ==
    [metrics_contexts |-> <<>>, generated_queries |-> <<>>,
     errors |-> <<>>, execution_log |-> <<>>]

\* the graph starts from the caller's input on a thread_id without checkpoint
StartsFrom(inp) ==
    /\ pc = "initialize"
    /\ user_queries = inp.user_queries
    /\ current_stage = LastValue(inp, "current_stage", KeyMissing)
    /\ metrics_contexts = inp.metrics_contexts
    /\ generated_queries = inp.generated_queries
    /\ dashboard_spec = inp.dashboard_spec
    /\ deployment_result = inp.deployment_result
    /\ errors = inp.errors
    /\ retry_count = inp.retry_count
    /\ max_retries = inp.max_retries
    /\ execution_log = inp.execution_log
    /\ start_time = inp.start_time
    /\ end_time = inp.end_time
    /\ last_update = inp
    /\ last_node = "START"
    /\ steps = 0
    /\ retries_taken = 0
    /\ generation_attempts = <<>>
    /\ trace = <<>>
    /\ runs = 1
    /\ inherited = FreshThread
    /\ dashboard_case = None
    /\ groq = None

Init == \E inp \in CallerInputs : StartsFrom(inp)

\* max_retries values, other than the one initialize_node writes, that the
\* caller may put into the initial state
CallerMaxRetries == {0, 7}

\* the graph starts from an initial state with the caller's own max_retries
InitCallerMaxRetries ==
    \E inp \in CallerInputs, mr \in CallerMaxRetries :
        StartsFrom([inp EXCEPT !.max_retries = mr])

-----------------------------------------------------------------------------
(* Router: agents/workflow.py *)

\* an unconditional edge extract_intent -> extract_metrics
route_after_intent_Unconditional(S) == "extract_metrics"

route_after_intent(S) ==
    IF S.current_stage = FAILED THEN "error" ELSE "extract_metrics"

\* a routing function that reads execution_log
route_after_generation_ByLog(S) ==
    IF S.current_stage = FAILED \/ Len(S.execution_log) = 0 THEN "error" ELSE "validate"

route_after_generation(S) ==
    IF S.current_stage = FAILED THEN "error" ELSE "validate"

\* route_after_validation without the retry_count < max_retries test
route_after_validation_Unbounded(S) ==
    IF S.current_stage = FAILED
    THEN IF \E i \in 1..Len(S.generated_queries) : ~S.generated_queries[i].is_valid
         THEN "retry"
         ELSE "error"
    ELSE "generate_dashboard"

route_after_validation(S) ==
    IF S.current_stage = FAILED
    THEN IF /\ S.retry_count < S.max_retries
            /\ \E i \in 1..Len(S.generated_queries) : ~S.generated_queries[i].is_valid
         THEN "retry"
         ELSE "error"
    ELSE "generate_dashboard"

\* a conditional edge after generate_dashboard that always deploys
route_after_dashboard_generation_AlwaysDeploy(S) == "deploy"

route_after_dashboard_generation(S) ==
    IF S.current_stage = FAILED THEN "error" ELSE "deploy"

\* the path maps of add_conditional_edges
EdgeTarget(label) ==
    CASE label = "extract_metrics" -> "extract_metrics"
      [] label = "validate" -> "validate_query"
      [] label = "generate_dashboard" -> "generate_dashboard"
      [] label = "retry" -> "generate_query"
      [] label = "deploy" -> "deploy_dashboard"
      [] label = "error" -> "error_handler"

-----------------------------------------------------------------------------
(* initialize_node *)

\* initialize_node without the reset of retry_count: the caller's value stays
InitializeRetryCount_Unreset == retry_count

\* the retry_count initialize_node writes
InitializeRetryCount == 0

\* initialize_node without the write of max_retries: the caller's value stays
InitializeMaxRetries_Kept == max_retries

\* the max_retries initialize_node writes
InitializeMaxRetries == 3

initialize_update(S) ==
    [current_stage |-> INITIALIZED,
     retry_count |-> InitializeRetryCount,
     max_retries |-> InitializeMaxRetries,
     start_time |-> Some(Now),
     metrics_contexts |-> <<>>,
     generated_queries |-> <<>>,
     errors |-> <<>>,
     execution_log |-> log_execution(S, "InitializationAgent")]

\* initialize_node has no try / except: log_execution reads
\* state['current_stage'], a KeyError when the key is missing
initialize_raises(S) == S.current_stage = KeyMissing

initialize_node ==
    /\ pc = "initialize"
    /\ IF initialize_raises(State)
       THEN /\ pc' = "RAISED"
            /\ UNCHANGED <<user_queries, current_stage, metrics_contexts,
                           generated_queries, dashboard_spec, deployment_result,
                           errors, retry_count, max_retries, execution_log,
                           start_time, end_time, last_node, last_update, steps,
                           trace, runs, inherited, dashboard_case, groq>>
       ELSE /\ LET u == initialize_update(State) IN
                  /\ MergeUpdate(u, user_queries, generated_queries)
                  /\ Executed("initialize", u)
            /\ pc' = "extract_intent"
    /\ UNCHANGED <<retries_taken, generation_attempts>>

-----------------------------------------------------------------------------
(* extract_intent_node *)

\* next((d for d in available_datasources if d['name'] == name), None)
HasDatasource(name) ==
    \E i \in 1..Len(AvailableDatasources) : AvailableDatasources[i].name = name

FindDatasource(name) ==
    AvailableDatasources[
        Min({i \in 1..Len(AvailableDatasources) : AvailableDatasources[i].name = name})]

\* the query type extract_intent_node gives a query resolved to datasource ds
ClassifyDatasource(ds) ==
    IF ds.name = "prometheus" THEN PROMETHEUS ELSE POSTGRES

\* the query context after lines 107-112 wrote the datasource into it
ResolvedQuery(q) ==
    LET ds == FindDatasource(q.datasource_name) IN
    [q EXCEPT !.datasource_uid = ds.uid,
              !.datasource_type = ds.type,
              !.query_type = ClassifyDatasource(ds)]

\* position of the first query whose datasource is not in the catalog, or 0
FirstUnresolved(qs) ==
    LET Bad(i) == ~HasDatasource(qs[i].datasource_name) IN FirstIndex({i \in 1..Len(qs) : Bad(i)})

\* state['user_queries'] after the node ran: the loop writes into the entries
\* it visited, also when it then returns the failure
extract_intent_inplace(S) ==
    LET qs == S.user_queries
        k == FirstUnresolved(qs)
    IN [i \in 1..Len(qs) |-> IF k = 0 \/ i < k THEN ResolvedQuery(qs[i]) ELSE qs[i]]

extract_intent_update(S) ==
    LET qs == S.user_queries
        k == FirstUnresolved(qs)
    IN IF k > 0
       THEN [errors |-> <<Error("intent_extraction", "datasource not found")>>,
             current_stage |-> FAILED]
       ELSE [user_queries |-> extract_intent_inplace(S),
             current_stage |-> INTENT_EXTRACTED,
             execution_log |-> log_execution(S, "IntentExtractionAgent")]

extract_intent_node ==
    /\ pc = "extract_intent"
    /\ LET u == extract_intent_update(State) IN
          /\ MergeUpdate(u, extract_intent_inplace(State), generated_queries)
          /\ Executed("extract_intent", u)
    /\ pc' = EdgeTarget(route_after_intent(State'))
    /\ UNCHANGED <<retries_taken, generation_attempts>>

-----------------------------------------------------------------------------
(* extract_metrics_node *)

\* what the extract_metrics tool returns for one query
ExtractOutcomes == {"fail", "ok"}

\* the MetricsContext built from a successful extraction (lines 172-177)
ExtractedContext ==
    [suggested_metrics |-> <<"cpu">>, suggested_labels |-> <<"instance">>,
     similar_metrics |-> <<>>, metric_labels |-> <<>>]

\* the placeholder of a query that is not a Prometheus query (lines 180-185)
EmptyContext ==
    [suggested_metrics |-> <<>>, suggested_labels |-> <<>>,
     similar_metrics |-> <<>>, metric_labels |-> <<>>]

\* outs[i] is the tool's outcome for query i
extract_metrics_update(S, outs) ==
    LET qs == S.user_queries
        Bad(i) == qs[i].query_type = PROMETHEUS /\ outs[i] = "fail"
        k == FirstIndex({i \in 1..Len(qs) : Bad(i)})
    IN IF k > 0
       THEN [errors |-> <<Error("metrics_extraction", "extraction failed")>>,
             current_stage |-> FAILED]
       ELSE [metrics_contexts |->
                [i \in 1..Len(qs) |->
                    IF qs[i].query_type = PROMETHEUS THEN ExtractedContext
                    ELSE EmptyContext],
             current_stage |-> METRICS_EXTRACTED,
             execution_log |-> log_execution(S, "MetricsExtractionAgent")]

extract_metrics_node ==
    /\ pc = "extract_metrics"
    /\ \E outs \in [1..Len(user_queries) -> ExtractOutcomes] :
          LET u == extract_metrics_update(State, outs) IN
             /\ MergeUpdate(u, user_queries, generated_queries)
             /\ Executed("extract_metrics", u)
    /\ pc' = "vector_search"
    /\ UNCHANGED <<retries_taken, generation_attempts>>

-----------------------------------------------------------------------------
(* vector_search_node *)

\* the search tool fails, finds nothing, or finds metrics; for found metrics
\* the label tool succeeds or fails
SearchOutcomes == {"fail", "empty", "found", "found_nolabels"}

\* the context of a Prometheus query after a successful search (lines 250-261)
SearchedContext(ctx, out) ==
    IF out = "empty" THEN [ctx EXCEPT !.similar_metrics = <<>>]
    ELSE IF out = "found"
    THEN [ctx EXCEPT !.similar_metrics = <<"cpu_usage">>, !.metric_labels = <<"job">>]
    ELSE [ctx EXCEPT !.similar_metrics = <<"cpu_usage">>]

vector_search_update(S, outs) ==
    LET qs == S.user_queries
        mc == S.metrics_contexts
        \* state['metrics_contexts'][idx] raises IndexError
        NoContext(i) == i > Len(mc)
        Bad(i) == NoContext(i) \/ (qs[i].query_type = PROMETHEUS /\ outs[i] = "fail")
        k == FirstIndex({i \in 1..Len(qs) : Bad(i)})
    IN IF k > 0
       THEN [errors |->
                <<Error("vector_search",
                        IF NoContext(k) THEN "list index out of range" ELSE "search failed")>>,
             current_stage |-> FAILED]
       ELSE [metrics_contexts |->
                [i \in 1..Len(qs) |->
                    IF qs[i].query_type = PROMETHEUS THEN SearchedContext(mc[i], outs[i])
                    ELSE mc[i]],
             current_stage |-> SIMILARITY_SEARCHED,
             execution_log |-> log_execution(S, "VectorSearchAgent")]

vector_search_node ==
    /\ pc = "vector_search"
    /\ \E outs \in [1..Len(user_queries) -> SearchOutcomes] :
          LET u == vector_search_update(State, outs) IN
             /\ MergeUpdate(u, user_queries, generated_queries)
             /\ Executed("vector_search", u)
    /\ pc' = "generate_query"
    /\ UNCHANGED <<retries_taken, generation_attempts>>

-----------------------------------------------------------------------------
(* generate_query_node *)

\* A query text is a sequence of tokens. NotAString is a 'query' value of the
\* provider's JSON that is no string (null, a list): the validation tool's
\* argument check rejects it.
NotAString == <<"\\null">>

\* the texts the PromQL provider may return
GeneratedPromQL == {<<"up">>, <<"up", "{">>, NotAString}

\* the texts the SQL provider may return
GeneratedSQL == {<<"SELECT", "1">>, <<"x">>}

GenerationFailure == [success |-> FALSE, query |-> <<>>]

\* what the generation tool of a query type may return
GenerationOutcomes(query_type) ==
    {GenerationFailure} \cup
    {[success |-> TRUE, query |-> t] :
        t \in IF query_type = PROMETHEUS THEN GeneratedPromQL ELSE GeneratedSQL}

AllGenerationOutcomes == GenerationOutcomes(PROMETHEUS) \cup GenerationOutcomes(POSTGRES)

\* a generated query that is taken to be valid before it was validated
NewGeneratedQuery_PresumedValid(q, out) ==
    [datasource_uid |-> q.datasource_uid,
     original_query |-> q.query_text,
     generated_query |-> out.query,
     query_type |-> q.query_type,
     is_valid |-> TRUE,
     validation_errors |-> None]

\* the GeneratedQuery built from a successful generation (lines 330-337, 361-368)
NewGeneratedQuery(q, out) ==
    [datasource_uid |-> q.datasource_uid,
     original_query |-> q.query_text,
     generated_query |-> out.query,
     query_type |-> q.query_type,
     is_valid |-> FALSE,
     validation_errors |-> None]

\* state['metrics_contexts'][idx] raises IndexError for query i
GenerationNoContext(S, i) ==
    S.user_queries[i].query_type = PROMETHEUS /\ i > Len(S.metrics_contexts)

\* lines 306-313: the query_context handed to the PromQL generation tool for
\* query i
PromQLQueryContext(S, i) ==
    [datasource |-> S.user_queries[i].datasource_uid,
     original_query |-> S.user_queries[i].query_text,
     similar_metrics |-> S.metrics_contexts[i].similar_metrics,
     labels |-> S.metrics_contexts[i].metric_labels]

\* position of the query at which the node returns its failure, or 0
GenerationFirstBad(S, outs) ==
    LET Bad(i) == GenerationNoContext(S, i) \/ ~outs[i].success
    IN FirstIndex({i \in 1..Len(S.user_queries) : Bad(i)})

\* the results of the tool calls the node made, in call order
GenerationCalls(S, outs) ==
    LET k == GenerationFirstBad(S, outs)
        m == IF k = 0 THEN Len(S.user_queries)
             ELSE IF GenerationNoContext(S, k) THEN k - 1 ELSE k
    IN [i \in 1..m |-> outs[i]]

generate_query_update(S, outs) ==
    LET qs == S.user_queries
        k == GenerationFirstBad(S, outs)
    IN IF k > 0
       THEN [errors |->
                <<Error("query_generation",
                        IF GenerationNoContext(S, k) THEN "list index out of range"
                        ELSE "generation failed")>>,
             current_stage |-> FAILED]
       ELSE [generated_queries |-> [i \in 1..Len(qs) |-> NewGeneratedQuery(qs[i], outs[i])],
             current_stage |-> QUERY_GENERATED,
             execution_log |-> log_execution(S, "QueryGenerationAgent")]

generate_query_node ==
    /\ pc = "generate_query"
    /\ Len(generated_queries) <= MaxGenerated
    /\ Len(generation_attempts) <= MaxGenerated
    /\ \E outs \in [1..Len(user_queries) -> AllGenerationOutcomes] :
          /\ \A i \in 1..Len(user_queries) :
                outs[i] \in GenerationOutcomes(user_queries[i].query_type)
          /\ LET u == generate_query_update(State, outs) IN
                /\ MergeUpdate(u, user_queries, generated_queries)
                /\ Executed("generate_query", u)
          /\ generation_attempts' = Append(generation_attempts, GenerationCalls(State, outs))
    /\ pc' = EdgeTarget(route_after_generation(State'))
    /\ UNCHANGED retries_taken

-----------------------------------------------------------------------------
(* validate_query tool: tools/vizgenie_tools.py *)

\* not query or len(query.strip()) == 0
IsBlank(query) == \A i \in 1..Len(query) : query[i] = " "

\* query.upper()
Upper(query) ==
    [i \in 1..Len(query) |-> IF query[i] = "select" THEN "SELECT" ELSE query[i]]

OneIf(cond, text) == IF cond THEN <<text>> ELSE <<>>

\* the errors list of the tool
validate_query(query, query_type) ==
    IF query_type = "prometheus"
    THEN OneIf(IsBlank(query), "Empty PromQL query")
         \o OneIf(Contains(query, "{") /\ ~Contains(query, "}"), "Unmatched braces in PromQL")
         \o OneIf(Contains(query, "(") /\ ~Contains(query, ")"),
                  "Unmatched parentheses in PromQL")
    ELSE IF query_type = "postgres"
    THEN OneIf(IsBlank(query), "Empty SQL query")
         \o OneIf(~Contains(Upper(query), "SELECT"), "SQL query must contain SELECT")
         \o OneIf(Count(query, "\"") % 2 # 0, "Unmatched quotes in SQL")
    ELSE <<>>

-----------------------------------------------------------------------------
(* validate_query_node *)

\* lines 418-419: the tool's verdict written into the entry
Validated(g) ==
    LET errs == validate_query(g.generated_query, g.query_type) IN
    [g EXCEPT !.is_valid = (Len(errs) = 0), !.validation_errors = Some(errs)]

\* position of the first entry on which validate_tool.invoke raises, or 0
FirstRaising(gq) ==
    LET Bad(i) == gq[i].generated_query = NotAString IN FirstIndex({i \in 1..Len(gq) : Bad(i)})

\* state['generated_queries'] after the node ran: the loop writes the verdict
\* into every entry it visited
validate_query_inplace(S) ==
    LET gq == S.generated_queries
        k == FirstRaising(gq)
    IN [i \in 1..Len(gq) |-> IF k = 0 \/ i < k THEN Validated(gq[i]) ELSE gq[i]]

\* a retry branch that is never taken
NeedsRetry_Never(all_valid, rc, mr) == FALSE

\* line 426: the condition of the retry branch
NeedsRetry(all_valid, rc, mr) == ~all_valid /\ rc < mr

\* line 430: the retry_count of the retry branch
NextRetryCount(rc) == rc + 1

\* a retry branch that also marks the stage failed, so that the conditional
\* edge after the node takes its retry label
validate_query_update_RetryFails(S) ==
    LET gq == S.generated_queries
        validated_queries == validate_query_inplace(S)
        all_valid == \A i \in 1..Len(validated_queries) : validated_queries[i].is_valid
    IN IF FirstRaising(gq) > 0
       THEN [errors |-> <<Error("validation", "tool input is not a string")>>,
             current_stage |-> FAILED]
       ELSE IF NeedsRetry(all_valid, S.retry_count, S.max_retries)
       THEN [generated_queries |-> validated_queries,
             retry_count |-> NextRetryCount(S.retry_count),
             current_stage |-> FAILED,
             errors |-> <<Error("validation", "Query validation failed, retrying")>>]
       ELSE [generated_queries |-> validated_queries,
             current_stage |-> QUERY_VALIDATED,
             execution_log |-> log_execution(S, "ValidationAgent")]

validate_query_update(S) ==
    LET gq == S.generated_queries
        validated_queries == validate_query_inplace(S)
        all_valid == \A i \in 1..Len(validated_queries) : validated_queries[i].is_valid
    IN IF FirstRaising(gq) > 0
       THEN [errors |-> <<Error("validation", "tool input is not a string")>>,
             current_stage |-> FAILED]
       ELSE IF NeedsRetry(all_valid, S.retry_count, S.max_retries)
       THEN [generated_queries |-> validated_queries,
             retry_count |-> NextRetryCount(S.retry_count),
             errors |-> <<Error("validation", "Query validation failed, retrying")>>]
       ELSE [generated_queries |-> validated_queries,
             current_stage |-> QUERY_VALIDATED,
             execution_log |-> log_execution(S, "ValidationAgent")]

validate_query_node ==
    /\ pc = "validate_query"
    /\ LET u == validate_query_update(State) IN
          /\ MergeUpdate(u, user_queries, validate_query_inplace(State))
          /\ Executed("validate_query", u)
    /\ pc' = EdgeTarget(route_after_validation(State'))
    /\ retries_taken' =
          IF route_after_validation(State') = "retry" THEN retries_taken + 1
          ELSE retries_taken
    /\ UNCHANGED generation_attempts

-----------------------------------------------------------------------------
(* generate_dashboard_node *)

\* the subsequence of s at the positions in idx, in order
KeepIndices(s, idx) ==
    LET nth(k) == CHOOSE i \in idx : Cardinality({j \in idx : j <= i}) = k
    IN [k \in 1..Cardinality(idx) |-> s[nth(k)]]

\* lines 474-481: one response per generated query that is valid
QueryResponses(gq) ==
    LET Keep(i) == gq[i].is_valid
        valid == KeepIndices(gq, {i \in 1..Len(gq) : Keep(i)})
    IN [i \in 1..Len(valid) |->
           [mandatory_datasource_uuid |-> valid[i].datasource_uid,
            userquery |-> valid[i].original_query,
            query |-> valid[i].generated_query]]

\* lines 524-530: the first panel of every non-empty title
UniquePanels(panels) ==
    LET Keep(i) == /\ panels[i].title # ""
                   /\ \A j \in 1..(i - 1) : panels[j].title # panels[i].title
    IN KeepIndices(panels, {i \in 1..Len(panels) : Keep(i)})

\* the panel count correction that trims before it removes the duplicates
FixPanelCount_TrimFirst(panels, expected_count) ==
    IF Len(panels) # expected_count
    THEN UniquePanels(Prefix(panels, expected_count))
    ELSE panels

\* lines 516-533: the panel count correction
FixPanelCount(panels, expected_count) ==
    IF Len(panels) # expected_count
    THEN Prefix(UniquePanels(panels), expected_count)
    ELSE panels

\* no datasource check: every panel is kept
ValidPanels_KeepAll(panels, query_responses) == panels

\* lines 540-553: panels of a datasource that no query response names are removed
ValidPanels(panels, query_responses) ==
    LET input_datasources ==
            {query_responses[i].mandatory_datasource_uuid : i \in 1..Len(query_responses)}
        Keep(i) == panels[i].datasource_uid \in input_datasources
    IN KeepIndices(panels, {i \in 1..Len(panels) : Keep(i)})

PostProcessPanels(panels, query_responses) ==
    ValidPanels(FixPanelCount(panels, Len(query_responses)), query_responses)

Panel(title, uid) == [title |-> title, datasource_uid |-> uid]

PanelTitles == <<"A", "B", "C", "D", "E", "F", "G", "H">>

PanelTitle(i) == IF i <= Len(PanelTitles) THEN PanelTitles[i] ELSE "Z"

\* the panel lists the dashboard provider may return for query responses qr:
\* one panel per query; two more than asked with a repeated title; as many as
\* asked with one title repeated; one panel of a datasource nobody asked for;
\* one panel too few; none
ProviderPanels(qr) ==
    LET n == Len(qr)
        exact == [i \in 1..n |-> Panel(PanelTitle(i), qr[i].mandatory_datasource_uuid)]
    IN {exact,
        <<exact[1]>> \o exact \o <<Panel(PanelTitle(n + 1), qr[1].mandatory_datasource_uuid)>>,
        [i \in 1..n |-> Panel("A", qr[i].mandatory_datasource_uuid)],
        [exact EXCEPT ![1].datasource_uid = "invented-uid"],
        Prefix(exact, n - 1),
        <<>>}

DashboardFailure == [success |-> FALSE, panels |-> <<>>]

DashboardOutcomes(qr) ==
    {DashboardFailure} \cup {[success |-> TRUE, panels |-> p] : p \in ProviderPanels(qr)}

\* generate_dashboard_node without the test for an empty query_responses
generate_dashboard_update_NoEmptyTest(S, out) ==
    LET query_responses == QueryResponses(S.generated_queries) IN
    IF ~out.success
    THEN [errors |-> <<Error("dashboard_generation", "Dashboard generation failed")>>,
          current_stage |-> FAILED]
    ELSE [dashboard_spec |->
             Some([title |-> "Generated Dashboard",
                   panels |-> PostProcessPanels(out.panels, query_responses),
                   uid |-> "dash-uid",
                   deployed_url |-> None]),
          current_stage |-> DASHBOARD_GENERATED,
          execution_log |-> log_execution(S, "DashboardGenerationAgent")]

generate_dashboard_update(S, out) ==
    LET query_responses == QueryResponses(S.generated_queries) IN
    IF Len(query_responses) = 0
    THEN [errors |-> <<Error("dashboard_generation", "No valid queries to generate dashboard")>>,
          current_stage |-> FAILED]
    ELSE IF ~out.success
    THEN [errors |-> <<Error("dashboard_generation", "Dashboard generation failed")>>,
          current_stage |-> FAILED]
    ELSE [dashboard_spec |->
             Some([title |-> "Generated Dashboard",
                   panels |-> PostProcessPanels(out.panels, query_responses),
                   uid |-> "dash-uid",
                   deployed_url |-> None]),
          current_stage |-> DASHBOARD_GENERATED,
          execution_log |-> log_execution(S, "DashboardGenerationAgent")]

generate_dashboard_node ==
    /\ pc = "generate_dashboard"
    /\ LET qr == QueryResponses(generated_queries) IN
       \E out \in IF Len(qr) = 0 THEN {DashboardFailure} ELSE DashboardOutcomes(qr) :
          LET u == generate_dashboard_update(State, out) IN
             /\ MergeUpdate(u, user_queries, generated_queries)
             /\ Executed("generate_dashboard", u)
    /\ pc' = EdgeTarget(route_after_dashboard_generation(State'))
    /\ UNCHANGED <<retries_taken, generation_attempts>>

-----------------------------------------------------------------------------
(* deploy_dashboard_node *)

\* what the deploy tool returns
DeployOutcomes ==
    {[success |-> FALSE, url |-> ""], [success |-> TRUE, url |-> "http://grafana/d/dash-uid"]}

\* deploy_dashboard_node whose failure branch forgets current_stage
deploy_dashboard_update_StageKept(S, result) ==
    IF ~result.success
    THEN [errors |-> <<Error("deployment", "Deployment failed")>>]
    ELSE [deployment_result |-> Some(result),
          current_stage |-> DEPLOYED,
          end_time |-> Some(Now),
          dashboard_spec |->
             Some([S.dashboard_spec[1] EXCEPT !.deployed_url = Some(result.url)]),
          execution_log |-> log_execution(S, "DeploymentAgent")]

\* deploy_dashboard_node that stores the provider's result also when the
\* deployment failed
deploy_dashboard_update_ResultStored(S, result) ==
    IF ~result.success
    THEN [errors |-> <<Error("deployment", "Deployment failed")>>,
          deployment_result |-> Some(result),
          current_stage |-> FAILED]
    ELSE [deployment_result |-> Some(result),
          current_stage |-> DEPLOYED,
          end_time |-> Some(Now),
          dashboard_spec |->
             Some([S.dashboard_spec[1] EXCEPT !.deployed_url = Some(result.url)]),
          execution_log |-> log_execution(S, "DeploymentAgent")]

deploy_dashboard_update(S, result) ==
    IF ~result.success
    THEN [errors |-> <<Error("deployment", "Deployment failed")>>,
          current_stage |-> FAILED]
    ELSE [deployment_result |-> Some(result),
          current_stage |-> DEPLOYED,
          end_time |-> Some(Now),
          dashboard_spec |->
             Some([S.dashboard_spec[1] EXCEPT !.deployed_url = Some(result.url)]),
          execution_log |-> log_execution(S, "DeploymentAgent")]

\* deploy_dashboard_node followed by a conditional edge that sends a failed
\* deployment to error_handler
deploy_dashboard_node_ErrorRouted ==
    /\ pc = "deploy_dashboard"
    /\ \E result \in DeployOutcomes :
          LET u == deploy_dashboard_update(State, result) IN
             /\ MergeUpdate(u, user_queries, generated_queries)
             /\ Executed("deploy_dashboard", u)
    /\ pc' = IF current_stage' = FAILED THEN "error_handler" ELSE "END"
    /\ UNCHANGED <<retries_taken, generation_attempts>>

deploy_dashboard_node ==
    /\ pc = "deploy_dashboard"
    /\ \E result \in DeployOutcomes :
          LET u == deploy_dashboard_update(State, result) IN
             /\ MergeUpdate(u, user_queries, generated_queries)
             /\ Executed("deploy_dashboard", u)
    /\ pc' = "END"
    /\ UNCHANGED <<retries_taken, generation_attempts>>

-----------------------------------------------------------------------------
(* error_handler_node *)

error_handler_update(S) ==
    IF Len(S.errors) = 0
    THEN [current_stage |-> FAILED, end_time |-> Some(Now)]
    ELSE [current_stage |-> FAILED, end_time |-> Some(Now),
          execution_log |-> log_execution(S, "ErrorHandlerAgent")]

error_handler_node ==
    /\ pc = "error_handler"
    /\ LET u == error_handler_update(State) IN
          /\ MergeUpdate(u, user_queries, generated_queries)
          /\ Executed("error_handler", u)
    /\ pc' = "END"
    /\ UNCHANGED <<retries_taken, generation_attempts>>

-----------------------------------------------------------------------------
(* The compiled graph *)

-----------------------------------------------------------------------------
(* generate_dashboard_node applied to any panel list the provider may return *)

\* longest panel list of the dashboard provider
MaxPanels == 5
\* largest number of valid generated queries handed to the provider
MaxPanelQueries == 3

\* the panels a provider answer is built from: four titles, an empty title,
\* a second panel of title "B", of a datasource no query has
PanelKinds ==
    {Panel("A", "prom-uid"), Panel("B", "pg-uid"), Panel("C", "prom-uid"),
     Panel("D", "prom-uid"), Panel("", "prom-uid"), Panel("B", "invented-uid")}

\* n generated queries that validate_query_node found valid; the second one
\* is a PostgreSQL query
ValidGeneratedQueries(n) ==
    [i \in 1..n |->
        IF i = 2
        THEN [datasource_uid |-> "pg-uid", original_query |-> i,
              generated_query |-> <<"SELECT", "1">>, query_type |-> POSTGRES,
              is_valid |-> TRUE, validation_errors |-> Some(<<>>)]
        ELSE [datasource_uid |-> "prom-uid", original_query |-> i,
              generated_query |-> <<"up">>, query_type |-> PROMETHEUS,
              is_valid |-> TRUE, validation_errors |-> Some(<<>>)]]

\* the state generate_dashboard_node is entered with
InitPanels ==
    /\ pc = "generate_dashboard_any"
    /\ \E n \in 1..MaxPanelQueries, p \in SeqsUpTo(PanelKinds, MaxPanels) :
          /\ generated_queries = ValidGeneratedQueries(n)
          /\ user_queries = [i \in 1..n |-> CallerQuery(i, "prometheus")]
          /\ dashboard_case = [panels |-> p]
    /\ groq = None
    /\ current_stage = QUERY_VALIDATED
    /\ metrics_contexts = <<>>
    /\ dashboard_spec = None
    /\ deployment_result = None
    /\ errors = <<>>
    /\ retry_count = InitializeRetryCount
    /\ max_retries = InitializeMaxRetries
    /\ execution_log = <<>>
    /\ start_time = None
    /\ end_time = None
    /\ last_node = "validate_query"
    /\ last_update = [current_stage |-> QUERY_VALIDATED]
    /\ steps = 0
    /\ retries_taken = 0
    /\ generation_attempts = <<>>
    /\ trace = <<>>
    /\ runs = 1
    /\ inherited = FreshThread

\* generate_dashboard_node when the provider succeeds with the panels of
\* dashboard_case
generate_dashboard_any ==
    /\ pc = "generate_dashboard_any"
    /\ LET u == generate_dashboard_update(
                    State, [success |-> TRUE, panels |-> dashboard_case.panels]) IN
          /\ MergeUpdate(u, user_queries, generated_queries)
          /\ last_node' = "generate_dashboard"
          /\ last_update' = u
          /\ steps' = steps + 1
          /\ trace' = Append(trace, [node |-> "generate_dashboard",
                                     stage |-> LastValue(u, "current_stage", "")])
    /\ pc' = EdgeTarget(route_after_dashboard_generation(State'))
    /\ UNCHANGED <<retries_taken, generation_attempts, runs, inherited, dashboard_case,
                   groq>>

NextPanels == generate_dashboard_any

SpecPanels == InitPanels /\ [][NextPanels]_vars

-----------------------------------------------------------------------------
(* The routing functions applied to any state *)

\* largest retry_count and max_retries a routed state has
MaxRoutedRetries == 3
\* longest generated_queries list of a routed state
MaxRoutedQueries == 2

\* a generated query that validate_query_node found valid, and one it found invalid
RoutedQueries ==
    {ValidGeneratedQueries(1)[1],
     [ValidGeneratedQueries(1)[1] EXCEPT
         !.generated_query = <<"up", "{">>, !.is_valid = FALSE,
         !.validation_errors = Some(<<"Unmatched curly braces">>)]}

\* the nodes add_conditional_edges attaches a routing function to
RoutedNodes == {"extract_intent", "generate_query", "validate_query", "generate_dashboard"}

\* a node with a conditional edge has returned; its routing function is next
InitRouting ==
    /\ pc = "route"
    /\ last_node \in RoutedNodes
    /\ current_stage \in ProcessingStage
    /\ retry_count \in 0..MaxRoutedRetries
    /\ max_retries \in 0..MaxRoutedRetries
    /\ generated_queries \in SeqsUpTo(RoutedQueries, MaxRoutedQueries)
    /\ user_queries = <<CallerQuery(1, "prometheus")>>
    /\ metrics_contexts = <<>>
    /\ dashboard_spec = None
    /\ deployment_result = None
    /\ errors = <<>>
    /\ execution_log = <<>>
    /\ start_time = None
    /\ end_time = None
    /\ last_update = [current_stage |-> current_stage]
    /\ steps = 0
    /\ retries_taken = 0
    /\ generation_attempts = <<>>
    /\ trace = <<>>
    /\ runs = 1
    /\ inherited = FreshThread
    /\ dashboard_case = None
    /\ groq = None

\* the routing function of a node, lines 56-96
RouteAfter(node, S) ==
    CASE node = "extract_intent" -> route_after_intent(S)
      [] node = "generate_query" -> route_after_generation(S)
      [] node = "validate_query" -> route_after_validation(S)
      [] node = "generate_dashboard" -> route_after_dashboard_generation(S)

\* the conditional edge is followed; no channel is written
route_any ==
    /\ pc = "route"
    /\ pc' = EdgeTarget(RouteAfter(last_node, State))
    /\ UNCHANGED <<user_queries, current_stage, metrics_contexts, generated_queries,
                   dashboard_spec, deployment_result, errors, retry_count, max_retries,
                   execution_log, start_time, end_time, last_node, last_update, steps,
                   retries_taken, generation_attempts, trace, runs, inherited,
                   dashboard_case, groq>>

NextRouting == route_any

SpecRouting == InitRouting /\ [][NextRouting]_vars

-----------------------------------------------------------------------------
(* A run whose caller passes an initial state with non-empty lists *)

\* the initial states of InputsWithLists carry one metrics context, one
\* generated query and one error
InputsWithLists ==
    {[inp EXCEPT !.metrics_contexts = <<ExtractedContext>>,
                 !.generated_queries = ValidGeneratedQueries(1),
                 !.errors = <<Error("caller", "left by the caller")>>] :
        inp \in CallerInputs}

InitWithLists == \E inp \in InputsWithLists : StartsFrom(inp)

-----------------------------------------------------------------------------
(* GroqHandler.groqrequest: handlers/groq_handler.py *)

\* longest list of configured API keys
MaxKeys == 3

\* the API keys of a configuration; __init__ keeps them in the order given
\* and drops none that is repeated
GroqKeys == {"k1", "k2"}

\* the texts a completion may carry
GroqContents == {"a", "b"}

\* the status codes the branches of lines 62-81 tell apart
GroqStatusCodes == {200, 401, 429, 503, 404}

\* what requests.post and the reading of its response may do for one key:
\* a response of any status, whose body carries choices[0].message.content
\* or does not, or an exception (a timeout, any other)
GroqOutcomes ==
    {[kind |-> "response", status |-> 200, content |-> Some(c)] : c \in GroqContents}
    \cup {[kind |-> "response", status |-> st, content |-> None] : st \in GroqStatusCodes}
    \cup {[kind |-> k, status |-> 0, content |-> None] : k \in {"Timeout", "Exception"}}

\* line 91
AllKeysFailed == "{\"error\": \"All API keys failed or rate limited\"}"

\* a handler that returns the content of any response, whatever its status
KeyAnswers_AnyResponse(r) == r.kind = "response"

\* lines 62-65: the request returns from the loop; a status 200 whose body
\* has no choices[0].message.content raises inside the try and is caught
\* at line 86
KeyAnswers(r) == r.kind = "response" /\ r.status = 200 /\ r.content # None

\* a handler as __init__ leaves it, groqrequest entered
InitGroq ==
    /\ pc = "groqrequest"
    /\ \E keys \in SeqsUpTo(GroqKeys, MaxKeys) :
          groq = [apikeys |-> keys, idx |-> 0, requests |-> <<>>, result |-> None]
    /\ user_queries = <<>>
    /\ current_stage = INITIALIZED
    /\ metrics_contexts = <<>>
    /\ generated_queries = <<>>
    /\ dashboard_spec = None
    /\ deployment_result = None
    /\ errors = <<>>
    /\ retry_count = InitializeRetryCount
    /\ max_retries = InitializeMaxRetries
    /\ execution_log = <<>>
    /\ start_time = None
    /\ end_time = None
    /\ last_node = "START"
    /\ last_update = [current_stage |-> INITIALIZED]
    /\ steps = 0
    /\ retries_taken = 0
    /\ generation_attempts = <<>>
    /\ trace = <<>>
    /\ runs = 1
    /\ inherited = FreshThread
    /\ dashboard_case = None

\* groqrequest touches nothing of the workflow state
GroqFrame ==
    UNCHANGED <<user_queries, current_stage, metrics_contexts, generated_queries,
                dashboard_spec, deployment_result, errors, retry_count, max_retries,
                execution_log, start_time, end_time, last_node, last_update, steps,
                retries_taken, generation_attempts, trace, runs, inherited,
                dashboard_case>>

\* lines 53-88: one iteration of the loop over enumerate(self.apikeys)
groq_post ==
    /\ pc = "groqrequest"
    /\ groq.idx < Len(groq.apikeys)
    /\ \E r \in GroqOutcomes :
          LET key == groq.apikeys[groq.idx + 1]
              sent == Append(groq.requests, [key |-> key, response |-> r])
          IN IF KeyAnswers(r)
             THEN /\ groq' = [groq EXCEPT !.requests = sent, !.result = r.content]
                  /\ pc' = "RETURNED"
             ELSE /\ groq' = [groq EXCEPT !.requests = sent, !.idx = groq.idx + 1]
                  /\ pc' = pc
    /\ GroqFrame

\* lines 90-91: the loop is exhausted
groq_all_failed ==
    /\ pc = "groqrequest"
    /\ groq.idx = Len(groq.apikeys)
    /\ groq' = [groq EXCEPT !.result = Some(AllKeysFailed)]
    /\ pc' = "RETURNED"
    /\ GroqFrame

NextGroq == groq_post \/ groq_all_failed

\* the loop is sequential code and every request has timeout=60 (line 60):
\* an iteration that can be taken is taken
SpecGroq == InitGroq /\ [][NextGroq]_vars /\ WF_vars(NextGroq)

-----------------------------------------------------------------------------
(* validate_query_node applied to any generated text *)

\* longest generated query text, in tokens
MaxTextLen == 3

\* the tokens a generated text is made of
TextTokens == {"up", "{", "}", "(", ")", "SELECT", "select", "\"", " "}

\* generate_query_node has returned one query with any text of either type
InitValidation ==
    /\ pc = "validate_query"
    /\ \E t \in SeqsUpTo(TextTokens, MaxTextLen), type \in {PROMETHEUS, POSTGRES} :
          /\ user_queries =
                <<[CallerQuery(1, "prometheus") EXCEPT
                      !.datasource_uid = "prom-uid", !.query_type = type]>>
          /\ generated_queries =
                <<NewGeneratedQuery(user_queries[1], [success |-> TRUE, query |-> t])>>
    /\ current_stage = QUERY_GENERATED
    /\ metrics_contexts = <<>>
    /\ dashboard_spec = None
    /\ deployment_result = None
    /\ errors = <<>>
    /\ retry_count = InitializeRetryCount
    /\ max_retries = InitializeMaxRetries
    /\ execution_log = <<>>
    /\ start_time = None
    /\ end_time = None
    /\ last_node = "generate_query"
    /\ last_update = [current_stage |-> QUERY_GENERATED]
    /\ steps = 0
    /\ retries_taken = 0
    /\ generation_attempts = <<>>
    /\ trace = <<>>
    /\ runs = 1
    /\ inherited = FreshThread
    /\ dashboard_case = None
    /\ groq = None

-----------------------------------------------------------------------------
(* A further run on the same workflow: compile_graph's MemorySaver and the   *)
(* default config of run / arun / stream, thread_id "1"                      *)

\* runs started on one workflow
MaxRuns == 2
\* longest user_queries list of a run that shares the workflow with another
MaxQueriesOnThread == 1

\* the initial states the callers of these runs pass
InputsOnThread == CallerInputsUpTo(MaxQueriesOnThread)

\* run is called again after the previous run returned: the graph continues
\* from the checkpoint of thread_id "1", the caller's input is merged into
\* its channels as an update
run_again ==
    /\ pc = "END"
    /\ runs < MaxRuns
    /\ \E inp \in InputsOnThread :
          /\ MergeUpdate(inp, inp.user_queries, generated_queries)
          /\ last_update' = inp
    /\ inherited' = [metrics_contexts |-> metrics_contexts,
                     generated_queries |-> generated_queries,
                     errors |-> errors,
                     execution_log |-> execution_log]
    /\ runs' = runs + 1
    /\ pc' = "initialize"
    /\ last_node' = "START"
    /\ steps' = 0
    /\ retries_taken' = 0
    /\ generation_attempts' = <<>>
    /\ trace' = <<>>
    /\ UNCHANGED <<dashboard_case, groq>>

Next ==
    \/ initialize_node
    \/ extract_intent_node
    \/ extract_metrics_node
    \/ vector_search_node
    \/ generate_query_node
    \/ validate_query_node
    \/ generate_dashboard_node
    \/ deploy_dashboard_node
    \/ error_handler_node

Spec == Init /\ [][Next]_vars

\* one run from an initial state with the caller's own max_retries
SpecCallerMaxRetries == InitCallerMaxRetries /\ [][Next]_vars

\* validate_query_node on one generated query of any text
NextValidation == validate_query_node

SpecValidation == InitValidation /\ [][NextValidation]_vars

\* one run from an initial state with non-empty lists
SpecWithLists == InitWithLists /\ [][Next]_vars

\* the runs a caller makes one after the other on one workflow
NextOnThread == Next \/ run_again

InitOnThread == \E inp \in InputsOnThread : StartsFrom(inp)

SpecOnThread == InitOnThread /\ [][NextOnThread]_vars

-----------------------------------------------------------------------------
(* Properties of the retry cycle *)

\* a generated text that is a string and fails the structural validation
StructurallyInvalid(out, query_type) ==
    /\ out.success
    /\ out.query # NotAString
    /\ Len(validate_query(out.query, query_type)) > 0

StructurallyValid(out, query_type) ==
    /\ out.success
    /\ out.query # NotAString
    /\ Len(validate_query(out.query, query_type)) = 0

ValidationErrorCount ==
    Cardinality({i \in 1..Len(errors) : errors[i].stage = "validation"})

\* validate_query_node just returned from its retry branch (line 428)
ValidationAskedRetry ==
    last_node = "validate_query" /\ Has(last_update, "retry_count")

\* C1: whenever validate_query_node finds an invalid generated query while
\* retry_count < max_retries (its retry branch), the node executed next is
\* generate_query, not generate_dashboard and not error_handler.
C1_InvalidQueryIsRetried ==
    ValidationAskedRetry => pc = "generate_query"

\* C2: the retry edge validate_query -> generate_query is taken at most
\* max_retries times in a run, whatever the providers and the validation tool do.
C2_RetryEdgeBounded ==
    retries_taken <= max_retries

\* C3: in every state after initialize_node, 0 <= retry_count <= max_retries.
C3_RetryCountWithinBounds ==
    last_node # "START" => (0 <= retry_count /\ retry_count <= max_retries)

\* C3 witness: validate_query_node has incremented retry_count.
C3_Witness ==
    ValidationAskedRetry /\ retry_count = 1 /\ max_retries = InitializeMaxRetries

\* every generation attempt of the run returned a structurally invalid text
\* for every query
EveryAttemptInvalid ==
    /\ Len(user_queries) > 0
    /\ Len(generation_attempts) > 0
    /\ \A a \in 1..Len(generation_attempts) :
          /\ Len(generation_attempts[a]) = Len(user_queries)
          /\ \A i \in 1..Len(user_queries) :
                StructurallyInvalid(generation_attempts[a][i], user_queries[i].query_type)

\* C4: a run in which every generated query is structurally invalid on every
\* attempt ends with current_stage FAILED, retry_count = max_retries and one
\* validation error per failed validation attempt.
C4_AllInvalidExhaustsRetries ==
    (pc = "END" /\ EveryAttemptInvalid) =>
        /\ current_stage = FAILED
        /\ retry_count = max_retries
        /\ ValidationErrorCount = Len(generation_attempts)

\* the generation attempts made so far for a single query are: invalid,
\* invalid, valid
InvalidTwiceThenValid ==
    /\ Len(user_queries) = 1
    /\ Len(generation_attempts) \in 1..3
    /\ \A a \in 1..Len(generation_attempts) :
          /\ Len(generation_attempts[a]) = 1
          /\ IF a < 3
             THEN StructurallyInvalid(generation_attempts[a][1], user_queries[1].query_type)
             ELSE StructurallyValid(generation_attempts[a][1], user_queries[1].query_type)

\* C5: a run with one query whose generated text is invalid on the first two
\* attempts and valid on the third does not end before the third attempt was
\* validated: it ends with retry_count = 2, three attempts made and the query valid.
C5_ThirdAttemptValidated ==
    (pc = "END" /\ InvalidTwiceThenValid) =>
        /\ retry_count = 2
        /\ Len(generation_attempts) = 3
        /\ \E i \in 1..Len(generated_queries) : generated_queries[i].is_valid

\* validate_query_node has run and has failed every time so far: it left
\* validation errors and never logged a completed validation
ValidationKeepsFailing ==
    /\ ValidationErrorCount > 0
    /\ \A i \in 1..Len(execution_log) : execution_log[i].agent # "ValidationAgent"

\* C6: in a run in which validation keeps failing, the number of node
\* executions is at most max_retries + 7.
C6_StepBound ==
    ValidationKeepsFailing => steps <= max_retries + 7

-----------------------------------------------------------------------------
(* Properties of failure propagation *)

NodesOtherThanValidate ==
    {"extract_intent", "extract_metrics", "vector_search", "generate_query",
     "generate_dashboard", "deploy_dashboard"}

\* C7: when a node other than validate_query returns current_stage FAILED, the
\* node executed next is error_handler, after which the run ends.
C7_FailedFlowsToErrorHandler ==
    /\ (/\ last_node \in NodesOtherThanValidate
        /\ Has(last_update, "current_stage")
        /\ last_update.current_stage = FAILED) => pc = "error_handler"
    /\ last_node = "error_handler" => pc = "END"

\* C8: once current_stage is FAILED, the only step that makes it non-FAILED is
\* generate_query_node entered through the retry edge from validate_query.
C8_FailedOnlyLeftByRetry ==
    [][(current_stage = FAILED /\ current_stage' # FAILED) =>
          (last_node = "validate_query" /\ pc = "generate_query")]_vars

\* C9: a run ends only with current_stage DEPLOYED or FAILED, and no node is
\* scheduled once current_stage is DEPLOYED.
C9_HaltsInTerminalStage ==
    /\ pc = "END" => current_stage \in {DEPLOYED, FAILED}
    /\ current_stage = DEPLOYED => pc = "END"

\* C9 witness: a run that ended after deploy_dashboard_node deployed.
C9_Witness ==
    pc = "END" /\ last_node = "deploy_dashboard" /\ current_stage = DEPLOYED

StagesFromMetricsExtracted ==
    {METRICS_EXTRACTED, SIMILARITY_SEARCHED, QUERY_GENERATED, QUERY_VALIDATED,
     DASHBOARD_GENERATED, DEPLOYED}

\* C10: in every state whose current_stage is METRICS_EXTRACTED or later,
\* metrics_contexts has one entry per user query.
C10_ContextsAlignedWithQueries ==
    current_stage \in StagesFromMetricsExtracted =>
        Len(metrics_contexts) = Len(user_queries)

-----------------------------------------------------------------------------
(* Claims C11 .. C20 *)

\* the latest execution of generate_query_node in this run returned
\* QUERY_GENERATED
GenerationCompleted ==
    \E i \in 1..Len(trace) :
        /\ trace[i].node = "generate_query"
        /\ trace[i].stage = QUERY_GENERATED
        /\ \A j \in (i+1)..Len(trace) : trace[j].node # "generate_query"

\* C11: in every state of a run in which generate_query_node has completed
\* successfully, also after validate_query_node merged its update and after a
\* retry, generated_queries is as long as user_queries.
C11_OneGeneratedQueryPerUserQuery ==
    GenerationCompleted => Len(generated_queries) = Len(user_queries)

IsPrefix(s, t) ==
    /\ Len(s) <= Len(t)
    /\ \A i \in 1..Len(s) : s[i] = t[i]

\* C12: across every step, errors and execution_log never get shorter and
\* every entry already present keeps its position and content; this includes
\* initialize_node, which returns empty lists, and the start of a further run.
C12_ErrorsAndLogAppendOnly ==
    [][IsPrefix(errors, errors') /\ IsPrefix(execution_log, execution_log')]_vars

\* C12 witness: initialize_node has run on a state that held errors and log
\* entries, and they are still there.
C12_Witness ==
    /\ last_node = "initialize"
    /\ Len(errors) > 0
    /\ Len(execution_log) > 1

\* a run with 2 queries has returned, no provider call and no validation failed
RunOfTwoWithoutFailure ==
    /\ pc = "END"
    /\ Len(user_queries) = 2
    /\ errors = <<>>

\* C13: a run with 2 queries in which every provider call succeeds and both
\* generated queries are valid ends DEPLOYED, with deployed_url set, 2
\* generated queries, all of them valid.
C13_TwoValidQueriesDeployed ==
    RunOfTwoWithoutFailure =>
        /\ current_stage = DEPLOYED
        /\ dashboard_spec # None
        /\ dashboard_spec[1].deployed_url # None
        /\ Len(generated_queries) = 2
        /\ \A i \in 1..Len(generated_queries) : generated_queries[i].is_valid

\* one of the queries names a datasource that is not in available_datasources
SomeQueryUnresolved ==
    \E i \in 1..Len(user_queries) : ~HasDatasource(user_queries[i].datasource_name)

\* C14: when one of the queries names a datasource that is not in
\* available_datasources, only initialize, extract_intent and error_handler
\* execute (no node that calls a provider), and the run returns FAILED with
\* exactly one errors entry, the one of the unresolved datasource, and
\* retry_count 0.
C14_UnresolvedDatasourceFailsAfterIntent ==
    (SomeQueryUnresolved /\ current_stage # KeyMissing) =>
        /\ pc \in {"initialize", "extract_intent", "error_handler", "END"}
        /\ generation_attempts = <<>>
        /\ pc = "END" =>
              /\ [i \in 1..Len(trace) |-> trace[i].node] =
                    <<"initialize", "extract_intent", "error_handler">>
              /\ current_stage = FAILED
              /\ errors = <<Error("intent_extraction", "datasource not found")>>
              /\ retry_count = 0

\* C14 witness: a run of two queries, the second with an unknown datasource,
\* has returned FAILED.
C14_Witness ==
    /\ pc = "END"
    /\ current_stage = FAILED
    /\ Len(user_queries) = 2
    /\ HasDatasource(user_queries[1].datasource_name)
    /\ ~HasDatasource(user_queries[2].datasource_name)

\* extract_metrics_node has returned FAILED in this run
MetricsExtractionFailed ==
    \E i \in 1..Len(trace) :
        trace[i].node = "extract_metrics" /\ trace[i].stage = FAILED

\* deploy_dashboard_node, which calls the deployment provider, has run
DeployCalled ==
    \E i \in 1..Len(trace) : trace[i].node = "deploy_dashboard"

\* C15: once the metric-extraction provider has failed in
\* extract_metrics_node, the deployment provider is never called in this run
\* and the run ends FAILED, whatever the later providers return.
C15_ExtractionFailureNeverDeploys ==
    MetricsExtractionFailed =>
        /\ ~DeployCalled
        /\ pc = "END" => current_stage = FAILED

\* the panels the dashboard provider returned
ReturnedPanels == dashboard_case.panels

\* the panels of dashboard_spec
SpecPanelList == dashboard_spec[1].panels

\* the number of queries passed to the dashboard provider
QueriesPassed ==
    Cardinality({i \in 1..Len(generated_queries) : generated_queries[i].is_valid})

\* the datasource uids of the valid generated queries
QueryDatasources ==
    {generated_queries[i].datasource_uid :
        i \in {j \in 1..Len(generated_queries) : generated_queries[j].is_valid}}

DistinctTitles(panels) == {panels[i].title : i \in 1..Len(panels)} \ {""}

HasDuplicateTitle(panels) ==
    \E i, j \in 1..Len(panels) : i < j /\ panels[i].title = panels[j].title

\* the provider returned more panels than queries, some titles duplicated,
\* and at least as many distinct titles as queries
OverProducedWithDuplicates ==
    /\ last_node = "generate_dashboard"
    /\ Len(ReturnedPanels) > QueriesPassed
    /\ HasDuplicateTitle(ReturnedPanels)
    /\ Cardinality(DistinctTitles(ReturnedPanels)) >= QueriesPassed

\* C16 as stated: when the provider returns more panels than queries, some
\* titles duplicated, and enough distinctly titled panels remain,
\* dashboard_spec has exactly as many panels as queries.
C16_ExactPanelCount ==
    OverProducedWithDuplicates =>
        /\ current_stage = DASHBOARD_GENERATED
        /\ Len(SpecPanelList) = QueriesPassed

\* C16 amended: the same, for provider answers in which every panel has the
\* datasource uid of one of the queries; the panels are then as many as the
\* queries and no two have the same title.
C16_ExactPanelCountOfKnownDatasources ==
    (/\ OverProducedWithDuplicates
     /\ \A i \in 1..Len(ReturnedPanels) :
           ReturnedPanels[i].datasource_uid \in QueryDatasources) =>
        /\ current_stage = DASHBOARD_GENERATED
        /\ Len(SpecPanelList) = QueriesPassed
        /\ ~HasDuplicateTitle(SpecPanelList)

\* C16 witness: 5 panels with one duplicated title for 3 queries gave 3 panels.
C16_Witness ==
    /\ OverProducedWithDuplicates
    /\ Len(ReturnedPanels) = 5
    /\ Cardinality(DistinctTitles(ReturnedPanels)) = 4
    /\ \A i \in 1..Len(ReturnedPanels) : ReturnedPanels[i].title # ""
    /\ QueriesPassed = 3
    /\ Len(SpecPanelList) = 3

\* C17: after generate_dashboard_node ran with a provider answer, it has
\* returned DASHBOARD_GENERATED (dropping panels does not make it fail) and
\* every panel of dashboard_spec has the datasource uid of a valid generated
\* query.
C17_PanelsOfKnownDatasources ==
    last_node = "generate_dashboard" =>
        /\ current_stage = DASHBOARD_GENERATED
        /\ \A i \in 1..Len(SpecPanelList) :
              SpecPanelList[i].datasource_uid \in QueryDatasources

\* C17 witness: the provider returned as many panels as queries, one of them
\* of a datasource no query has, and that panel was dropped.
C17_Witness ==
    /\ last_node = "generate_dashboard"
    /\ current_stage = DASHBOARD_GENERATED
    /\ Len(ReturnedPanels) = QueriesPassed
    /\ \E i \in 1..Len(ReturnedPanels) :
          ReturnedPanels[i].datasource_uid \notin QueryDatasources
    /\ Len(SpecPanelList) < QueriesPassed

\* generated_queries is not empty and every entry is marked valid
AllMarkedValid ==
    /\ Len(generated_queries) > 0
    /\ \A i \in 1..Len(generated_queries) : generated_queries[i].is_valid

\* C18: validate_query_node applied to generated_queries whose entries are
\* all valid already, the texts unchanged, gives every query the is_valid it
\* had: both the entries it writes in place and the list it returns are all
\* valid again, and it returns QUERY_VALIDATED.
C18_ValidationIdempotent ==
    AllMarkedValid =>
        LET again == validate_query_inplace(State)
            u == validate_query_update(State)
        IN /\ \A i \in 1..Len(generated_queries) :
                 again[i].is_valid = generated_queries[i].is_valid
           /\ Has(u, "generated_queries")
           /\ Len(u.generated_queries) = Len(generated_queries)
           /\ \A i \in 1..Len(generated_queries) :
                 u.generated_queries[i].is_valid = generated_queries[i].is_valid
           /\ LastValue(u, "current_stage", "") = QUERY_VALIDATED

\* C18 witness: validate_query_node has found queries of both kinds valid.
C18_Witness ==
    /\ last_node = "validate_query"
    /\ AllMarkedValid
    /\ \E i, j \in 1..Len(generated_queries) :
          /\ generated_queries[i].query_type = PROMETHEUS
          /\ generated_queries[j].query_type = POSTGRES

\* C19: no stage handler lets an exception escape, whatever the input state
\* and the provider outcomes; in particular initialize_node always succeeds.
C19_NoExceptionEscapes ==
    pc # "RAISED"

\* C20: runs started on the same workflow with the default config share no
\* run state: when a run returns, metrics_contexts, generated_queries, errors
\* and execution_log hold nothing that an earlier run produced.
C20_RunsShareNoState ==
    pc = "END" =>
        /\ Len(inherited.metrics_contexts) = 0
        /\ Len(inherited.generated_queries) = 0
        /\ Len(inherited.errors) = 0
        /\ Len(inherited.execution_log) = 0

-----------------------------------------------------------------------------
(* Claims C21 .. C30 *)

\* C21: in the final state of every run that returned, DEPLOYED or FAILED,
\* end_time is set, and start_time is the one initialize_node wrote.
C21_FinalStateHasBothTimes ==
    pc = "END" =>
        /\ end_time # None
        /\ start_time = Some(1)

\* vector_search_node has just completed; generate_query_node is next
SearchCompleted ==
    /\ last_node = "vector_search"
    /\ current_stage = SIMILARITY_SEARCHED
    /\ pc = "generate_query"

\* C22: after vector_search_node completed, metrics_contexts[i] of every
\* Prometheus query i is the context the search built for query i, and
\* generate_query_node hands the similar metrics and labels of that context
\* to the PromQL generation tool.
C22_GenerationUsesSearchedContext ==
    SearchCompleted =>
        \A i \in 1..Len(user_queries) :
            user_queries[i].query_type = PROMETHEUS =>
                LET found == last_update.metrics_contexts[i] IN
                /\ metrics_contexts[i] = found
                /\ PromQLQueryContext(State, i).similar_metrics = found.similar_metrics
                /\ PromQLQueryContext(State, i).labels = found.metric_labels

SomeQueryInvalid ==
    \E i \in 1..Len(generated_queries) : ~generated_queries[i].is_valid

\* the node a conditional edge has led to
RoutedTo(node, target) == (last_node = node /\ pc # "route") => pc = target

\* C23: the four routing functions give a branch for every state and follow
\* the routing table: after extract_intent, generate_query and
\* generate_dashboard the error branch iff current_stage is FAILED, else the
\* forward branch; after validate_query retry iff FAILED, retry_count <
\* max_retries and some generated query is not valid, error iff FAILED
\* otherwise, generate_dashboard iff not FAILED.
C23_RoutersFollowTable ==
    /\ route_after_intent(State) \in {"error", "extract_metrics"}
    /\ route_after_intent(State) = "error" <=> current_stage = FAILED
    /\ route_after_generation(State) \in {"error", "validate"}
    /\ route_after_generation(State) = "error" <=> current_stage = FAILED
    /\ route_after_dashboard_generation(State) \in {"error", "deploy"}
    /\ route_after_dashboard_generation(State) = "error" <=> current_stage = FAILED
    /\ route_after_validation(State) \in {"retry", "error", "generate_dashboard"}
    /\ route_after_validation(State) = "retry" <=>
          (current_stage = FAILED /\ retry_count < max_retries /\ SomeQueryInvalid)
    /\ route_after_validation(State) = "generate_dashboard" <=> current_stage # FAILED
    /\ RoutedTo("extract_intent",
                IF current_stage = FAILED THEN "error_handler" ELSE "extract_metrics")
    /\ RoutedTo("generate_query",
                IF current_stage = FAILED THEN "error_handler" ELSE "validate_query")
    /\ RoutedTo("generate_dashboard",
                IF current_stage = FAILED THEN "error_handler" ELSE "deploy_dashboard")
    /\ RoutedTo("validate_query",
                IF current_stage # FAILED THEN "generate_dashboard"
                ELSE IF retry_count < max_retries /\ SomeQueryInvalid
                     THEN "generate_query" ELSE "error_handler")

\* C23 witness: validate_query was routed to error_handler although a
\* generated query is invalid, because the retries are used up.
C23_Witness ==
    /\ last_node = "validate_query"
    /\ pc = "error_handler"
    /\ current_stage = FAILED
    /\ SomeQueryInvalid
    /\ retry_count = max_retries
    /\ max_retries = 3

\* C24: every time the retry edge validate_query -> generate_query is taken,
\* user_queries is unchanged and retry_count is one greater than it was when
\* generate_query_node ran before (validate_query_node was entered with that
\* retry_count).
C24_RetryIncrementsCount ==
    [][(pc = "validate_query" /\ pc' = "generate_query") =>
          (user_queries' = user_queries /\ retry_count' = retry_count + 1)]_vars

\* C25: in every state with current_stage QUERY_VALIDATED, every entry of
\* generated_queries is valid.
C25_ValidatedMeansAllValid ==
    current_stage = QUERY_VALIDATED =>
        \A i \in 1..Len(generated_queries) : generated_queries[i].is_valid

\* C25 witness: validate_query_node has set QUERY_VALIDATED for two queries.
C25_Witness ==
    /\ last_node = "validate_query"
    /\ current_stage = QUERY_VALIDATED
    /\ Len(user_queries) = 2
    /\ Len(generated_queries) > 0

\* C26: after initialize_node's update is merged, whatever initial state the
\* caller passed, retry_count is 0, current_stage is INITIALIZED, start_time
\* is set, and metrics_contexts, generated_queries and errors are empty.
C26_InitializeResets ==
    last_node = "initialize" =>
        /\ retry_count = 0
        /\ current_stage = INITIALIZED
        /\ start_time # None
        /\ metrics_contexts = <<>>
        /\ generated_queries = <<>>
        /\ errors = <<>>

\* C27: no stage handler changes the state it receives: after every node
\* execution user_queries and generated_queries are what the merge of the
\* returned update into the lists the node received gives; when
\* extract_intent_node returns FAILED (an update without user_queries), no
\* entry of user_queries has changed.
C27_HandlersChangeNothingInPlace ==
    [][steps' = steps + 1 =>
          /\ user_queries' = LastValue(last_update', "user_queries", user_queries)
          /\ generated_queries' =
                OperatorAdd(last_update', "generated_queries", generated_queries)]_vars

\* C28: after generate_dashboard_node succeeded, no two panels of
\* dashboard_spec have the same title, whatever panel list the provider
\* returned (stated for the panels that have a title).
C28_PanelTitlesUnique ==
    (last_node = "generate_dashboard" /\ current_stage = DASHBOARD_GENERATED) =>
        \A i, j \in 1..Len(SpecPanelList) :
            (i < j /\ SpecPanelList[i].title # "") =>
                SpecPanelList[i].title # SpecPanelList[j].title

\* C29: in a full run the dashboard generate_dashboard_node produced has at
\* most len(user_queries) panels, and the dashboard provider was handed at
\* most one query response per user query.
C29_AtMostOnePanelPerQuery ==
    (last_node = "generate_dashboard" /\ current_stage = DASHBOARD_GENERATED) =>
        /\ Len(SpecPanelList) <= Len(user_queries)
        /\ Len(QueryResponses(generated_queries)) <= Len(user_queries)

\* generate_dashboard_node has run in this run and no generated query is valid
DashboardRanWithoutValidQuery ==
    /\ \E i \in 1..Len(trace) : trace[i].node = "generate_dashboard"
    /\ QueriesPassed = 0

\* C30: when no generated query is valid, generate_dashboard_node returns
\* FAILED with one dashboard_generation error whatever the provider would
\* answer (it is not called), dashboard_spec stays unset, and the run goes to
\* error_handler and ends FAILED without deploy_dashboard_node.
C30_NoValidQueryFails ==
    /\ (pc = "generate_dashboard" /\ QueriesPassed = 0) =>
          \A out \in {DashboardFailure,
                      [success |-> TRUE, panels |-> <<Panel("A", "prom-uid")>>]} :
              generate_dashboard_update(State, out) =
                 [errors |-> <<Error("dashboard_generation",
                                     "No valid queries to generate dashboard")>>,
                  current_stage |-> FAILED]
    /\ DashboardRanWithoutValidQuery =>
          /\ pc \in {"error_handler", "END"}
          /\ current_stage = FAILED
          /\ dashboard_spec = None
          /\ ~DeployCalled
          /\ Cardinality({i \in (Len(inherited.errors) + 1)..Len(errors) :
                             errors[i].stage = "dashboard_generation"}) = 1

\* C30 witness: a run whose generated queries were all invalid has returned
\* after generate_dashboard_node.
C30_Witness ==
    /\ pc = "END"
    /\ DashboardRanWithoutValidQuery
    /\ Len(generated_queries) > 0

-----------------------------------------------------------------------------
(* Claims C31 .. C40 *)

\* generate_dashboard_node has built a dashboard_spec without panels
DashboardWithoutPanels ==
    /\ \E i \in 1..Len(trace) : trace[i].node = "generate_dashboard"
    /\ dashboard_spec # None
    /\ Len(SpecPanelList) = 0

\* C31: when the dashboard has no panel after the post-processing of
\* generate_dashboard_node, the deployment provider is not called and the run
\* ends FAILED.
C31_EmptyDashboardFails ==
    DashboardWithoutPanels =>
        /\ pc # "deploy_dashboard"
        /\ ~DeployCalled
        /\ pc = "END" => current_stage = FAILED

DashboardGenerationRan ==
    \E i \in 1..Len(trace) : trace[i].node = "generate_dashboard"

\* C32: in a run started with dashboard_spec and deployment_result unset,
\* deployment_result is set only in stage DEPLOYED, dashboard_spec only in
\* DASHBOARD_GENERATED, DEPLOYED or a FAILED reached after dashboard
\* generation, and dashboard_spec.deployed_url only in DEPLOYED.
C32_OptionalFieldsFollowStage ==
    /\ deployment_result # None => current_stage = DEPLOYED
    /\ dashboard_spec # None =>
          \/ current_stage \in {DASHBOARD_GENERATED, DEPLOYED}
          \/ current_stage = FAILED /\ DashboardGenerationRan
    /\ dashboard_spec # None =>
          (dashboard_spec[1].deployed_url # None => current_stage = DEPLOYED)

\* C32 witness: the deployment failed; the run returned FAILED with
\* dashboard_spec set, deployed_url and deployment_result unset.
C32_Witness ==
    /\ pc = "END"
    /\ last_node = "deploy_dashboard"
    /\ current_stage = FAILED
    /\ dashboard_spec # None
    /\ deployment_result = None

\* C33: extract_intent_node classifies every query by the declared type of
\* its resolved datasource, whatever the datasource's name: type prometheus
\* gives a Prometheus query, a relational type a PostgreSQL query.
C33_ClassifiedByDatasourceType ==
    (last_node = "extract_intent" /\ current_stage = INTENT_EXTRACTED) =>
        \A i \in 1..Len(user_queries) :
            user_queries[i].query_type =
                IF FindDatasource(user_queries[i].datasource_name).type = "prometheus"
                THEN PROMETHEUS
                ELSE POSTGRES

\* the updates the handler of a node can return for state S, one per outcome
\* of its providers
HandlerUpdates(node, S) ==
    LET n == Len(S.user_queries)
        qr == QueryResponses(S.generated_queries)
    IN CASE node = "initialize" -> {initialize_update(S)}
         [] node = "extract_intent" -> {extract_intent_update(S)}
         [] node = "extract_metrics" ->
               {extract_metrics_update(S, outs) : outs \in [1..n -> ExtractOutcomes]}
         [] node = "vector_search" ->
               {vector_search_update(S, outs) : outs \in [1..n -> SearchOutcomes]}
         [] node = "generate_query" ->
               {generate_query_update(S, outs) :
                   outs \in {o \in [1..n -> AllGenerationOutcomes] :
                               \A i \in 1..n :
                                  o[i] \in GenerationOutcomes(S.user_queries[i].query_type)}}
         [] node = "validate_query" -> {validate_query_update(S)}
         [] node = "generate_dashboard" ->
               {generate_dashboard_update(S, out) :
                   out \in IF Len(qr) = 0 THEN {DashboardFailure} ELSE DashboardOutcomes(qr)}
         [] node = "deploy_dashboard" ->
               {deploy_dashboard_update(S, result) : result \in DeployOutcomes}
         [] node = "error_handler" -> {error_handler_update(S)}
         [] OTHER -> {}

\* what an update says about current_stage, retry_count and errors
Decision(u) ==
    [k \in {"current_stage", "retry_count", "errors"} \cap DOMAIN u |-> u[k]]

\* the branches the four routing functions give for state S
Routes(S) ==
    <<route_after_intent(S), route_after_generation(S),
      route_after_validation(S), route_after_dashboard_generation(S)>>

\* the state with another execution_log: an empty one, one with a further entry
WithOtherLog ==
    {[State EXCEPT !.execution_log = log] :
        log \in {<<>>, execution_log \o <<[agent |-> "Other", stage |-> FAILED]>>}}

\* C34: for two states that differ only in execution_log, every routing
\* function gives the same branch and the handler of the node about to run
\* returns the same current_stage, retry_count and errors.
C34_LogNotRead ==
    current_stage # KeyMissing =>
        \A S2 \in WithOtherLog :
            /\ Routes(S2) = Routes(State)
            /\ {Decision(u) : u \in HandlerUpdates(pc, S2)} =
                  {Decision(u) : u \in HandlerUpdates(pc, State)}

\* C34 witness: with entries in execution_log, validate_query_node returned
\* FAILED and was routed to the retry.
C34_Witness ==
    /\ last_node = "validate_query"
    /\ current_stage = FAILED
    /\ pc = "generate_query"
    /\ Len(execution_log) > 2

\* the text and the type of the generated query validate_query_node visited
ValidatedText == generated_queries[1].generated_query

ValidatedType == generated_queries[1].query_type

\* C35: the validation tool marks a Prometheus text invalid whenever it is
\* empty or has not as many opening as closing braces, or parentheses, and a
\* PostgreSQL text invalid whenever it is empty, has no SELECT, or has an odd
\* number of double quotes.
C35_StructuralDefectsInvalid ==
    last_node = "validate_query" =>
        /\ (/\ ValidatedType = PROMETHEUS
            /\ \/ ValidatedText = <<>>
               \/ Count(ValidatedText, "{") # Count(ValidatedText, "}")
               \/ Count(ValidatedText, "(") # Count(ValidatedText, ")"))
              => ~generated_queries[1].is_valid
        /\ (/\ ValidatedType = POSTGRES
            /\ \/ ValidatedText = <<>>
               \/ \A i \in 1..Len(ValidatedText) :
                     ValidatedText[i] \notin {"SELECT", "select"}
               \/ Count(ValidatedText, "\"") % 2 = 1)
              => ~generated_queries[1].is_valid

TimesExecuted(node) ==
    Cardinality({i \in 1..Len(trace) : trace[i].node = node})

\* C37: in a run the deployment provider is called at most once, and
\* deploy_dashboard_node is entered only right after generate_dashboard_node,
\* with current_stage = DASHBOARD_GENERATED and dashboard_spec set.
C37_DeploysOnceAfterDashboard ==
    /\ TimesExecuted("deploy_dashboard") <= 1
    /\ pc = "deploy_dashboard" =>
          /\ TimesExecuted("deploy_dashboard") = 0
          /\ last_node = "generate_dashboard"
          /\ current_stage = DASHBOARD_GENERATED
          /\ dashboard_spec # None

\* C37 witness: the run ended after the deployment provider was called.
C37_Witness ==
    pc = "END" /\ TimesExecuted("deploy_dashboard") = 1 /\ last_node = "deploy_dashboard"

\* the two nodes that have an edge to END
FinalNodes == {"error_handler", "deploy_dashboard"}

\* C38: error_handler_node and deploy_dashboard_node are each executed at most
\* once in a run and never both, and the one that is executed is the last
\* node of the run: the run has ended right after it.
C38_OneFinalNode ==
    /\ TimesExecuted("error_handler") + TimesExecuted("deploy_dashboard") <= 1
    /\ \A i \in 1..Len(trace) :
          trace[i].node \in FinalNodes => i = Len(trace) /\ pc = "END"
    /\ pc \in FinalNodes => \A i \in 1..Len(trace) : trace[i].node \notin FinalNodes

\* C38 witness: the run ended after error_handler_node, deploy_dashboard_node
\* not executed.
C38_Witness ==
    /\ pc = "END"
    /\ last_node = "error_handler"
    /\ TimesExecuted("error_handler") = 1
    /\ TimesExecuted("deploy_dashboard") = 0

\* C39: after initialize_node max_retries is 3 in every state of the run,
\* whatever max_retries the caller put into the initial state, and no later
\* handler returns a max_retries.
C39_MaxRetriesFixed ==
    last_node # "START" =>
        /\ max_retries = 3
        /\ last_node # "initialize" => ~Has(last_update, "max_retries")

\* C39 witness: a run that started with a max_retries other than 3 has ended
\* with max_retries = 3.
C39_Witness ==
    /\ pc = "END"
    /\ 3 \notin CallerMaxRetries
    /\ max_retries = 3
    /\ trace[1].node = "initialize"

\* a response of status 200
Status200(r) == r.kind = "response" /\ r.status = 200

\* a response of status 200 whose body carries a completion text
Completion(r) == Status200(r) /\ r.content \in {Some(c) : c \in GroqContents}

\* the requests of the call follow the list of keys: request i carries key i
RequestsInListOrder ==
    /\ Len(groq.requests) <= Len(groq.apikeys)
    /\ \A i \in 1..Len(groq.requests) : groq.requests[i].key = groq.apikeys[i]

\* the requests of the call whose response is a completion, and those whose
\* response has status 200
CompletionRequests ==
    {i \in 1..Len(groq.requests) : Completion(groq.requests[i].response)}

Status200Requests ==
    {i \in 1..Len(groq.requests) : Status200(groq.requests[i].response)}

\* what the call returns when the requests in answered are those that end
\* the loop: no request after one of them, its content returned, the error
\* string after the last key otherwise
ReturnsFirst(answered) ==
    LET reqs == groq.requests IN
    /\ \A i \in answered : i = Len(reqs)
    /\ pc = "RETURNED" =>
          IF answered # {}
          THEN groq.result = reqs[Len(reqs)].response.content
          ELSE Len(reqs) = Len(groq.apikeys) /\ groq.result = Some(AllKeysFailed)

\* the safety part of C40: list order, one request per entry of the key
\* list, the completion of the first key that answers, the error string if
\* and only if no key answers, no other way out of the call
GroqRequestSafe ==
    /\ RequestsInListOrder
    /\ ReturnsFirst(CompletionRequests)
    /\ pc \in {"groqrequest", "RETURNED"}
    /\ pc = "RETURNED" =>
          (groq.result = Some(AllKeysFailed)
              <=> CompletionRequests = {})

\* C40: groqrequest tries the configured keys in list order, one request per
\* entry, returns the completion text of the first key that answers with
\* status 200 and a body that carries one, without trying later keys, returns
\* the fixed error string if and only if no key answers so (or none is
\* configured), and always returns.
C40_FailoverReturns ==
    [](GroqRequestSafe) /\ <>(pc = "RETURNED")

\* C40 witness: the first key failed and the second one answered.
C40_Witness ==
    /\ pc = "RETURNED"
    /\ Len(groq.requests) = 2
    /\ Len(groq.apikeys) = 3
    /\ ~Completion(groq.requests[1].response)
    /\ groq.result = groq.requests[2].response.content
    /\ groq.result # Some(AllKeysFailed)

\* C40 as stated: the first key that answers with status 200 ends the call.
C40_FirstStatus200Returns ==
    /\ RequestsInListOrder
    /\ ReturnsFirst(Status200Requests)

====
